---- MODULE Spec2Model ----
(***************************************************************************)
(* Model of scripts/fetch_forecast.py: the GFS-Wave swell forecast         *)
(* pipeline (cycle selection, forecast-hour schedule, per-hour download    *)
(* and point extraction through a temporary file, output document).        *)
(*                                                                         *)
(* Conventions                                                             *)
(*  - Python's None is the empty sequence <<>>, a present value v is <<v>>.*)
(*  - A datetime is a record [d, h, mi, s, us]: day ordinal, hour, minute, *)
(*    second, microsecond.  Day 1 stands for 2024-03-01, day 0 for         *)
(*    2024-02-29.                                                          *)
(*  - Floats read from a dataset are fixed-point integers in thousandths   *)
(*    (1234 is 1.234).  Rounded record fields are integers in the unit of  *)
(*    their last kept decimal (height_m in 1/100 m, height_ft in 1/10 ft,  *)
(*    period_s in 1/10 s, direction_deg in whole degrees).                 *)
(***************************************************************************)
EXTENDS Integers, Sequences, FiniteSets, TLC

VARIABLES
    now,            \* datetime.now(timezone.utc) read by get_latest_cycle
    cycle,          \* main: cycle (None before/without selection)
    hours_back,     \* get_latest_cycle: loop value at which it returned
    pc,             \* main: control position
    forecast_hours, \* main: forecast_hours
    idx,            \* main: position of the for loop in forecast_hours
    forecasts,      \* main: forecasts
    success_count,  \* main: success_count
    exit_status,    \* process exit status (None while running)
    outfile,        \* content of OUTPUT_PATH (None when the file is absent)
    outfile0,       \* content of OUTPUT_PATH before the run
    tmpfile,        \* content of tmp_path (None when the file is absent)
    epc,            \* extract_point: control position of each caller
    ebytes,         \* extract_point: grib_bytes argument of each caller
    eresult,        \* extract_point: value returned to each caller
    eexc,           \* extract_point: exception raised out of the call
    decoded,        \* history: file content the caller's open_dataset read
    fetched,        \* history: offsets passed to download_grib, in order
    fetchOK,        \* history: offsets whose download_grib returned bytes
    extractCalled,  \* history: offsets whose bytes were passed to extract_point
    extractOK,      \* history: offsets whose extract_point returned a record
    checked,        \* history: idx at which success_count == 0 was evaluated
    envStart,       \* environment: first loop position of the fault window
    envBackground   \* environment: download outcome outside the fault window

vars == <<now, cycle, hours_back, pc, forecast_hours, idx, forecasts,
          success_count, exit_status, outfile, outfile0, tmpfile, epc, ebytes,
          eresult, eexc, decoded, fetched, fetchOK, extractCalled, extractOK,
          checked, envStart, envBackground>>

None == <<>>
Some(v) == <<v>>

-----------------------------------------------------------------------------
(* Bounds of the model *)

MaxDay == 2        \* days from which `now` is drawn: 1..MaxDay
MaxMilli == 80     \* sampled swh values: 0..MaxMilli thousandths of a metre
FaultSpan == 2     \* consecutive loop positions with arbitrary outcomes

-----------------------------------------------------------------------------
(* datetime / timedelta arithmetic *)

DateTime(d, h, mi, s, us) == [d |-> d, h |-> h, mi |-> mi, s |-> s, us |-> us]

\* t - timedelta(hours=n), n >= 0
MinusHours(t, n) ==
    LET total == t.d * 24 + t.h - n
    IN  [t EXCEPT !.d = total \div 24, !.h = total % 24]

\* t + timedelta(hours=n), n >= 0
PlusHours(t, n) ==
    LET total == t.d * 24 + t.h + n
    IN  [t EXCEPT !.d = total \div 24, !.h = total % 24]

\* a - b as a normalised timedelta [seconds, us] (a >= b in every use)
Minus(a, b) ==
    LET secs == (a.d - b.d) * 86400 + (a.h - b.h) * 3600
                + (a.mi - b.mi) * 60 + (a.s - b.s)
        us   == a.us - b.us
    IN  IF us < 0 THEN [seconds |-> secs - 1, us |-> us + 1000000]
                  ELSE [seconds |-> secs, us |-> us]

\* delta.total_seconds() >= n for a whole number n of seconds: the
\* microsecond part is in 0..999999, so it never decides the comparison.
TotalSecondsGE(delta, n) == delta.seconds >= n

LagSeconds == 12600    \* 3.5 * 3600

\* range(start, stop, step) as a sequence, step > 0
Range(start, stop, step) ==
    LET n == IF stop > start THEN (stop - start + step - 1) \div step ELSE 0
    IN  [i \in 1..n |-> start + (i - 1) * step]

\* cycle_time computed by one pass of the walk-back loop
CycleTimeAt(t, hb) ==
    LET candidate  == MinusHours(t, hb)
        cycle_hour == (candidate.h \div 6) * 6
    IN  [candidate EXCEPT !.h = cycle_hour, !.mi = 0, !.s = 0, !.us = 0]

\* variant: a 3-hour availability lag
AvailableShortLag(t, hb) == TotalSecondsGE(Minus(t, CycleTimeAt(t, hb)), 10800)

Available(t, hb) == TotalSecondsGE(Minus(t, CycleTimeAt(t, hb)), LagSeconds)

\* variant: the walk-back keeps going and returns the last accepted candidate
FirstAcceptedLast(t) ==
    LET r == Range(0, 24, 6)
        ok == {i \in 1..Len(r) : Available(t, r[i])}
    IN  IF ok = {} THEN 0 ELSE CHOOSE i \in ok : \A j \in ok : i >= j

\* Index in range(0, 24, 6) of the first accepted candidate, 0 if none
FirstAccepted(t) ==
    LET r == Range(0, 24, 6)
        ok == {i \in 1..Len(r) : Available(t, r[i])}
    IN  IF ok = {} THEN 0 ELSE CHOOSE i \in ok : \A j \in ok : i <= j

\* get_latest_cycle(): Some(cycle_time) or None
get_latest_cycle(t) ==
    LET i == FirstAccepted(t)
    IN  IF i = 0 THEN None ELSE Some(CycleTimeAt(t, Range(0, 24, 6)[i]))

-----------------------------------------------------------------------------
(* forecast-hour schedule *)

\* variant: the hourly part stops at 119 (range(0, 120))
ForecastHoursShort == Range(0, 120, 1) \o Range(123, 241, 3)

\* list(range(0, 121)) + list(range(123, 241, 3))
ForecastHours == Range(0, 121, 1) \o Range(123, 241, 3)

-----------------------------------------------------------------------------
(* GRIB payloads and the record extract_point builds from a dataset *)

\* A payload: valid is FALSE when xr.open_dataset / ds.sel raise on it;
\* swh, perpw, dirpw are the point's variables (None: variable not in point).
Grib(valid, swh, perpw, dirpw) ==
    [valid |-> valid, swh |-> swh, perpw |-> perpw, dirpw |-> dirpw]

BadGrib     == Grib(FALSE, None, None, None)
FullGrib    == Grib(TRUE, Some(1234), Some(9470), Some(187400))
PartialGrib == Grib(TRUE, Some(76), Some(0), None)
\* what is left in tmp_path when f.write fails after open() created the file
TruncatedGrib == Grib(FALSE, None, None, None)

\* round(x, ndigits) on a fixed-point value n, in units of the kept digit.
\* The float behind n is the double nearest to the decimal, and Python
\* rounds that double correctly: away from a decimal tie the result is the
\* nearest multiple; on a decimal tie it is whichever neighbour the double
\* happens to lie closer to (round(0.005, 2) == 0.01, round(9.45, 1) == 9.4),
\* so both neighbours are possible results.
Round(n, unit) ==
    LET q == n \div unit
        r == n % unit
    IN  IF 2 * r < unit THEN {q}
        ELSE IF 2 * r > unit THEN {q + 1}
        ELSE {q, q + 1}

\* Python truthiness of an optional float: None and 0.0 are falsy
Truthy(x) == x # None /\ x[1] # 0

FtFactor == 328084     \* 3.28084 in units of 10^-5

\* round(height_m * 3.28084, 1) if height_m is not None else None
HeightFt(height_m) ==
    IF height_m # None
    THEN {Some(v) : v \in Round(height_m[1] * FtFactor, 10000000)}
    ELSE {None}

\* round(height_m, 2) if height_m else None
HeightM(height_m) ==
    IF Truthy(height_m) THEN {Some(v) : v \in Round(height_m[1], 10)}
    ELSE {None}

\* round(period_s, 1) if period_s else None
PeriodS(period_s) ==
    IF Truthy(period_s) THEN {Some(v) : v \in Round(period_s[1], 100)}
    ELSE {None}

\* round(direction_deg, 0) if direction_deg else None
DirectionDeg(direction_deg) ==
    IF Truthy(direction_deg)
    THEN {Some(v) : v \in Round(direction_deg[1], 1000)}
    ELSE {None}

\* the dicts the try block can return for a decoded point
PointRecords(point) ==
    {[height_ft |-> ft, height_m |-> m, period_s |-> per, direction_deg |-> dir] :
        ft \in HeightFt(point.swh), m \in HeightM(point.swh),
        per \in PeriodS(point.perpw), dir \in DirectionDeg(point.dirpw)}

-----------------------------------------------------------------------------
(* extract_point(grib_bytes), step by step, for caller p.  tmp_path is the  *)
(* one fixed path "/tmp/gfswave_temp.grib2" for every call and process.     *)

Callers == {1, 2}

mainVars == <<now, cycle, hours_back, pc, forecast_hours, idx, forecasts,
              success_count, exit_status, outfile, outfile0, fetched, fetchOK,
              extractCalled, extractOK, checked, envStart, envBackground>>

\* with open(tmp_path, "wb") as f: f.write(grib_bytes)  -- succeeds
EP_Write(p) ==
    /\ epc[p] = "write"
    /\ tmpfile' = Some(ebytes[p])
    /\ epc' = [epc EXCEPT ![p] = "decode"]
    /\ UNCHANGED <<eresult, eexc, decoded, ebytes, mainVars>>

\* open() creates the file, f.write raises (outside the try): the OSError
\* leaves extract_point, the finally clause is never entered
EP_WriteFail(p) ==
    /\ epc[p] = "write"
    /\ tmpfile' = Some(TruncatedGrib)
    /\ epc' = [epc EXCEPT ![p] = "raised"]
    /\ eexc' = [eexc EXCEPT ![p] = "OSError"]
    /\ UNCHANGED <<eresult, decoded, ebytes, mainVars>>

\* try: open_dataset, sel, build the dict / except Exception: return None
EP_Decode(p) ==
    /\ epc[p] = "decode"
    /\ decoded' = [decoded EXCEPT ![p] = tmpfile]
    /\ IF tmpfile # None /\ tmpfile[1].valid
       THEN \E rec \in PointRecords(tmpfile[1]) :
               eresult' = [eresult EXCEPT ![p] = Some(rec)]
       ELSE eresult' = [eresult EXCEPT ![p] = None]
    /\ epc' = [epc EXCEPT ![p] = "finally"]
    /\ UNCHANGED <<tmpfile, eexc, ebytes, mainVars>>

\* finally: if os.path.exists(tmp_path):
EP_Exists(p) ==
    /\ epc[p] = "finally"
    /\ epc' = [epc EXCEPT ![p] = IF tmpfile # None THEN "remove" ELSE "returned"]
    /\ UNCHANGED <<tmpfile, eresult, eexc, decoded, ebytes, mainVars>>

\* os.remove(tmp_path): FileNotFoundError when the file is gone by now
EP_Remove(p) ==
    /\ epc[p] = "remove"
    /\ IF tmpfile # None
       THEN /\ tmpfile' = None
            /\ epc' = [epc EXCEPT ![p] = "returned"]
            /\ UNCHANGED eexc
       ELSE /\ epc' = [epc EXCEPT ![p] = "raised"]
            /\ eexc' = [eexc EXCEPT ![p] = "FileNotFoundError"]
            /\ UNCHANGED tmpfile
    /\ UNCHANGED <<eresult, decoded, ebytes, mainVars>>

-----------------------------------------------------------------------------
(* main() *)

\* What requests.get can produce for one offset: None (any exception in
\* download_grib) or Some(r.content).
DriverPayloads == {BadGrib, FullGrib, PartialGrib}
AnyOutcome == {None} \cup {Some(g) : g \in DriverPayloads}
Backgrounds == {None, Some(BadGrib), Some(FullGrib)}
FaultStarts == {1, 48, 120}

\* Outcomes the environment may give at loop position i: arbitrary inside
\* the fault window, the background outcome elsewhere.
Outcomes(i) ==
    IF i >= envStart /\ i < envStart + FaultSpan THEN AnyOutcome
    ELSE {envBackground}

\* The forecast record appended for offset fhr
ForecastEntry(fhr, data) ==
    [valid_time    |-> PlusHours(cycle[1], fhr),
     forecast_hour |-> fhr,
     height_ft     |-> data.height_ft,
     height_m      |-> data.height_m,
     period_s      |-> data.period_s,
     direction_deg |-> data.direction_deg]

\* The document json.dump writes (generated_at, a later clock reading, and
\* the constant grid_point are left out)
Document == [model_cycle |-> cycle[1], forecasts |-> forecasts]

epVars == <<tmpfile, epc, ebytes, eresult, eexc, decoded>>

\* cycle = get_latest_cycle(); if not cycle: sys.exit(1);
\* forecast_hours = ...; forecasts = []; success_count = 0
Main_Start ==
    /\ pc = "start"
    /\ cycle' = get_latest_cycle(now)
    /\ hours_back' = IF FirstAccepted(now) = 0 THEN None
                     ELSE Some(Range(0, 24, 6)[FirstAccepted(now)])
    /\ IF cycle' = None
       THEN /\ pc' = "exit"
            /\ exit_status' = Some(1)
            /\ UNCHANGED <<forecast_hours, idx>>
       ELSE /\ pc' = "loop"
            /\ forecast_hours' = ForecastHours
            /\ idx' = 1
            /\ UNCHANGED exit_status
    /\ forecasts' = <<>>
    /\ success_count' = 0
    /\ UNCHANGED <<now, outfile, outfile0, fetched, fetchOK, extractCalled,
                   extractOK, checked, envStart, envBackground, epVars>>

\* Loop head and grib = download_grib(cycle, fhr);
\* if grib is None: continue; else data = extract_point(grib) is entered
Main_Download ==
    /\ pc = "loop"
    /\ idx <= Len(forecast_hours)
    /\ LET fhr == forecast_hours[idx] IN
       \E grib \in Outcomes(idx) :
          /\ fetched' = Append(fetched, fhr)
          /\ IF grib = None
             THEN /\ idx' = idx + 1
                  /\ UNCHANGED <<pc, fetchOK, extractCalled, epc, ebytes>>
             ELSE /\ fetchOK' = fetchOK \cup {fhr}
                  /\ extractCalled' = Append(extractCalled, fhr)
                  /\ pc' = "extract"
                  /\ epc' = [epc EXCEPT ![1] = "write"]
                  /\ ebytes' = [ebytes EXCEPT ![1] = grib[1]]
                  /\ UNCHANGED idx
    /\ UNCHANGED <<now, cycle, hours_back, forecast_hours, forecasts,
                   success_count, exit_status, outfile, outfile0, extractOK,
                   checked, envStart, envBackground, tmpfile, eresult, eexc,
                   decoded>>

\* variant: the `if data is None: continue` guard is missing, a record with
\* null fields is appended for a failed extraction
Main_AfterExtractNoSkip ==
    /\ pc = "extract"
    /\ epc[1] = "returned"
    /\ LET fhr  == forecast_hours[idx]
           data == IF eresult[1] = None
                   THEN [height_ft |-> None, height_m |-> None,
                         period_s |-> None, direction_deg |-> None]
                   ELSE eresult[1][1]
       IN  /\ forecasts' = Append(forecasts, ForecastEntry(fhr, data))
           /\ success_count' = success_count + 1
           /\ extractOK' = IF eresult[1] = None THEN extractOK
                           ELSE extractOK \cup {fhr}
    /\ idx' = idx + 1
    /\ pc' = "loop"
    /\ epc' = [epc EXCEPT ![1] = "idle"]
    /\ UNCHANGED <<now, cycle, hours_back, forecast_hours, exit_status,
                   outfile, outfile0, fetched, fetchOK, extractCalled, checked,
                   envStart, envBackground, tmpfile, ebytes, eresult, eexc,
                   decoded>>

\* extract_point returned: if data is None: continue; else append the
\* record and count it
Main_AfterExtract ==
    /\ pc = "extract"
    /\ epc[1] = "returned"
    /\ LET fhr  == forecast_hours[idx]
           data == eresult[1]
       IN  IF data = None
           THEN UNCHANGED <<forecasts, success_count, extractOK>>
           ELSE /\ forecasts' = Append(forecasts, ForecastEntry(fhr, data[1]))
                /\ success_count' = success_count + 1
                /\ extractOK' = extractOK \cup {fhr}
    /\ idx' = idx + 1
    /\ pc' = "loop"
    /\ epc' = [epc EXCEPT ![1] = "idle"]
    /\ UNCHANGED <<now, cycle, hours_back, forecast_hours, exit_status,
                   outfile, outfile0, fetched, fetchOK, extractCalled, checked,
                   envStart, envBackground, tmpfile, ebytes, eresult, eexc,
                   decoded>>

\* extract_point raised: nothing in main catches it, the interpreter prints
\* the traceback and exits with status 1
Main_Uncaught ==
    /\ pc = "extract"
    /\ epc[1] = "raised"
    /\ pc' = "exit"
    /\ exit_status' = Some(1)
    /\ epc' = [epc EXCEPT ![1] = "idle"]
    /\ UNCHANGED <<now, cycle, hours_back, forecast_hours, idx, forecasts,
                   success_count, outfile, outfile0, fetched, fetchOK,
                   extractCalled, extractOK, checked, envStart, envBackground,
                   tmpfile, ebytes, eresult, eexc, decoded>>

\* variant: the document is written before the success_count check
Main_FinishWriteFirst ==
    /\ pc = "loop"
    /\ idx > Len(forecast_hours)
    /\ checked' = Some(idx)
    /\ pc' = "exit"
    /\ outfile' = Some(Document)
    /\ exit_status' = IF success_count = 0 THEN Some(1) ELSE Some(0)
    /\ UNCHANGED <<now, cycle, hours_back, forecast_hours, idx, forecasts,
                   success_count, outfile0, fetched, fetchOK, extractCalled,
                   extractOK, envStart, envBackground, epVars>>

\* After the loop: if success_count == 0: sys.exit(1); else write the
\* document to OUTPUT_PATH and fall off the end of main (status 0)
Main_Finish ==
    /\ pc = "loop"
    /\ idx > Len(forecast_hours)
    /\ checked' = Some(idx)
    /\ pc' = "exit"
    /\ IF success_count = 0
       THEN /\ exit_status' = Some(1)
            /\ UNCHANGED outfile
       ELSE /\ exit_status' = Some(0)
            /\ outfile' = Some(Document)
    /\ UNCHANGED <<now, cycle, hours_back, forecast_hours, idx, forecasts,
                   success_count, outfile0, fetched, fetchOK, extractCalled,
                   extractOK, envStart, envBackground, epVars>>

-----------------------------------------------------------------------------
(* Specifications *)

Hours == 0..23
Minutes == {0, 29, 30, 31, 59}
Seconds == {0, 59}
Micros == {0, 1, 999999}

OldDocument == [model_cycle |-> DateTime(0, 0, 0, 0, 0), forecasts |-> <<>>]

InitCommon ==
    /\ cycle = None
    /\ hours_back = None
    /\ forecast_hours = <<>>
    /\ idx = 0
    /\ forecasts = <<>>
    /\ success_count = 0
    /\ exit_status = None
    /\ outfile = outfile0
    /\ tmpfile = None
    /\ eresult = [p \in Callers |-> None]
    /\ eexc = [p \in Callers |-> "none"]
    /\ decoded = [p \in Callers |-> None]
    /\ fetched = <<>>
    /\ fetchOK = {}
    /\ extractCalled = <<>>
    /\ extractOK = {}
    /\ checked = None

\* One run of main() in an environment with a fault window
Init ==
    /\ now \in {DateTime(1, 5, 0, 0, 0), DateTime(2, 21, 29, 59, 999999)}
    /\ outfile0 \in {None, Some(OldDocument)}
    /\ pc = "start"
    /\ epc = [p \in Callers |-> "idle"]
    /\ ebytes = [p \in Callers |-> BadGrib]
    /\ envStart \in FaultStarts
    /\ envBackground \in Backgrounds
    /\ InitCommon

Next ==
    \/ Main_Start
    \/ Main_Download
    \/ Main_AfterExtract
    \/ Main_Uncaught
    \/ Main_Finish
    \/ EP_Write(1)
    \/ EP_WriteFail(1)
    \/ EP_Decode(1)
    \/ EP_Exists(1)
    \/ EP_Remove(1)

Spec == Init /\ [][Next]_vars

\* get_latest_cycle over a range of clock readings
InitCycle ==
    /\ now \in {DateTime(d, h, mi, s, us) :
                  d \in 1..MaxDay, h \in Hours, mi \in Minutes,
                  s \in Seconds, us \in Micros}
    /\ outfile0 = None
    /\ pc = "start"
    /\ epc = [p \in Callers |-> "idle"]
    /\ ebytes = [p \in Callers |-> BadGrib]
    /\ envStart = 1
    /\ envBackground = None
    /\ InitCommon

NextCycle == Main_Start

SpecCycle == InitCycle /\ [][NextCycle]_vars

\* One extract_point call over a range of payloads
OptMilli == {None} \cup {Some(k) : k \in 0..MaxMilli}
SampleGribs ==
    {BadGrib} \cup
    {Grib(TRUE, swh, perpw, dirpw) :
        swh \in OptMilli,
        perpw \in {None, Some(0), Some(9450)},
        dirpw \in {None, Some(0), Some(187500), Some(359500)}}

InitExtract ==
    /\ now = DateTime(1, 5, 0, 0, 0)
    /\ outfile0 = None
    /\ pc = "idle"
    /\ epc = [p \in Callers |-> IF p = 1 THEN "write" ELSE "idle"]
    /\ ebytes \in {[p \in Callers |-> IF p = 1 THEN g ELSE BadGrib] :
                     g \in SampleGribs}
    /\ envStart = 1
    /\ envBackground = None
    /\ InitCommon

NextExtract ==
    \/ EP_Write(1)
    \/ EP_WriteFail(1)
    \/ EP_Decode(1)
    \/ EP_Exists(1)
    \/ EP_Remove(1)

SpecExtract == InitExtract /\ [][NextExtract]_vars

\* Two extract_point calls running at the same time (two runs of the
\* pipeline on one machine, each inside its own call)
ConcGribs == {FullGrib, PartialGrib}

InitConc ==
    /\ now = DateTime(1, 5, 0, 0, 0)
    /\ outfile0 = None
    /\ pc = "idle"
    /\ epc = [p \in Callers |-> "write"]
    /\ ebytes \in [Callers -> ConcGribs]
    /\ envStart = 1
    /\ envBackground = None
    /\ InitCommon

NextConc ==
    \/ \E p \in Callers : EP_Write(p)
    \/ \E p \in Callers : EP_WriteFail(p)
    \/ \E p \in Callers : EP_Decode(p)
    \/ \E p \in Callers : EP_Exists(p)
    \/ \E p \in Callers : EP_Remove(p)

SpecConc == InitConc /\ [][NextConc]_vars

-----------------------------------------------------------------------------
(* Properties *)

Finished == pc = "exit"
HoursOf(seq) == {seq[i].forecast_hour : i \in 1..Len(seq)}
IsPrefix(a, b) == Len(a) <= Len(b) /\ \A i \in 1..Len(a) : a[i] = b[i]
RecordKeys == {"valid_time", "forecast_hour", "height_ft", "height_m",
               "period_s", "direction_deg"}

\* C1: when the run has finished, forecasts holds a record for offset O
\* exactly when download_grib(O) and extract_point(O) both succeeded, its
\* length is the number of such offsets, it is strictly ascending by
\* forecast_hour, and every record is complete.
C1_RecordsIffBothSucceeded ==
    Finished =>
        /\ HoursOf(forecasts) = fetchOK \cap extractOK
        /\ Len(forecasts) = Cardinality(fetchOK \cap extractOK)
        /\ \A i \in 1..Len(forecasts) - 1 :
              forecasts[i].forecast_hour < forecasts[i + 1].forecast_hour
        /\ \A i \in 1..Len(forecasts) : DOMAIN forecasts[i] = RecordKeys

\* a full pass in which some offsets produced a record and some failed at
\* the download and some at the extraction
C1_Witness ==
    /\ Finished
    /\ checked # None
    /\ Len(forecasts) > 0
    /\ fetchOK # extractOK
    /\ Cardinality(fetchOK) < Len(fetched)

\* C2: a cycle returned by get_latest_cycle has hour in {0,6,12,18},
\* minute = second = microsecond = 0, and is at least 3.5 hours before now.
C2_CycleAlignedAndAged ==
    cycle # None =>
        /\ cycle[1].h \in {0, 6, 12, 18}
        /\ cycle[1].mi = 0 /\ cycle[1].s = 0 /\ cycle[1].us = 0
        /\ (now.d - cycle[1].d) * 86400 + (now.h - cycle[1].h) * 3600
              + now.mi * 60 + now.s >= 12600

\* a cycle returned at the exact 3.5-hour boundary
C2_Witness ==
    /\ cycle # None
    /\ now.h = cycle[1].h + 3 /\ now.d = cycle[1].d
    /\ now.mi = 30 /\ now.s = 0 /\ now.us = 0

AgeSeconds == (now.d - cycle[1].d) * 86400 + (now.h - cycle[1].h) * 3600
                 + now.mi * 60 + now.s

\* C9: get_latest_cycle never returns None; the cycle it returns is the most
\* recent 6-hour-aligned time at least 3.5 hours old (so its age is in
\* [3.5h, 9.5h)), found at hours_back 0 or 6; 2024-03-01T05:00:00Z gives
\* 2024-03-01T00:00:00Z.
C9_MostRecentAvailableCycle ==
    pc # "start" =>
        /\ cycle # None
        /\ cycle[1].h \in {0, 6, 12, 18}
        /\ AgeSeconds >= 12600
        /\ AgeSeconds < 34200
        /\ hours_back \in {Some(0), Some(6)}
        /\ now = DateTime(1, 5, 0, 0, 0) => cycle[1] = DateTime(1, 0, 0, 0, 0)

\* the first candidate is too fresh and the second one is returned, on the
\* previous day
C9_Witness ==
    /\ pc # "start"
    /\ hours_back = Some(6)
    /\ cycle # None
    /\ cycle[1].d = now.d - 1

\* C3: a run that ends without a cycle or without any record exits non-zero
\* and leaves OUTPUT_PATH as it was; the file is written, and the exit status
\* is 0, only with at least one record.
C3_NoOutputWithoutRecords ==
    /\ outfile # outfile0 => Len(forecasts) >= 1 /\ exit_status = Some(0)
    /\ exit_status = Some(0) =>
          /\ Len(forecasts) >= 1
          /\ outfile = Some(Document)
    /\ Finished /\ (cycle = None \/ Len(forecasts) = 0) =>
          /\ exit_status = Some(1)
          /\ outfile = outfile0

\* every offset was attempted, none produced a record, an existing file is
\* still there
C3_Witness ==
    /\ Finished
    /\ Len(fetched) = 161
    /\ Len(forecasts) = 0
    /\ fetchOK # {}
    /\ outfile0 # None
    /\ outfile = outfile0
    /\ exit_status = Some(1)

ExpectedHours ==
    [i \in 1..161 |-> IF i <= 121 THEN i - 1 ELSE 123 + 3 * (i - 122)]

\* C6: the offsets iterated by the driver are 0..120 in steps of 1 followed
\* by 123..240 in steps of 3: 161 values, strictly ascending, the same on
\* every run.
C6_Schedule ==
    pc # "start" /\ cycle # None =>
        /\ forecast_hours = ExpectedHours
        /\ Len(forecast_hours) = 161
        /\ forecast_hours[1] = 0 /\ forecast_hours[121] = 120
        /\ forecast_hours[122] = 123 /\ forecast_hours[161] = 240
        /\ \A i \in 1..160 : forecast_hours[i] < forecast_hours[i + 1]
        /\ IsPrefix(fetched, ExpectedHours)

\* the loop has passed the change of step (120 -> 123) and reached 240
C6_Witness ==
    /\ Len(fetched) = 161
    /\ fetched[121] = 120 /\ fetched[122] = 123 /\ fetched[161] = 240

\* C4: for a decoded dataset, each of height_m, period_s, direction_deg is
\* null exactly when its variable is absent, and a present variable yields
\* its rounded value; an absent variable does not fail the extraction.
C4_NullIffAbsent ==
    epc[1] = "returned" /\ ebytes[1].valid =>
        /\ eresult[1] # None
        /\ LET g == ebytes[1]
               r == eresult[1][1]
           IN  /\ (r.height_m = None) <=> (g.swh = None)
               /\ (r.period_s = None) <=> (g.perpw = None)
               /\ (r.direction_deg = None) <=> (g.dirpw = None)
               /\ g.swh # None =>
                     r.height_m \in {Some(v) : v \in Round(g.swh[1], 10)}
               /\ g.perpw # None =>
                     r.period_s \in {Some(v) : v \in Round(g.perpw[1], 100)}
               /\ g.dirpw # None =>
                     r.direction_deg \in
                        {Some(v) : v \in Round(g.dirpw[1], 1000)}

\* C5: in a returned record, height_ft is null whenever height_m is null,
\* and otherwise height_ft equals height_m * 3.28084 rounded to 1 decimal.
C5_HeightFieldsAgree ==
    epc[1] = "returned" /\ eresult[1] # None =>
        LET r == eresult[1][1]
        IN  /\ r.height_m = None => r.height_ft = None
            /\ r.height_m # None =>
                  r.height_ft \in
                     {Some(v) : v \in Round(r.height_m[1] * FtFactor, 1000000)}

\* C8: whenever extract_point has returned or raised, tmp_path does not
\* exist; no transient file exists between offsets or after the run.
C8_NoTempFileLeft ==
    (epc[1] \in {"returned", "raised"} \/ pc \in {"loop", "exit"})
        => tmpfile = None

\* C7: a run with a cycle ends only after every offset was passed to
\* download_grib exactly once, in schedule order, whatever failed on the
\* way; extract_point is called only for downloaded offsets; the
\* success_count check is made only after the last offset.
C7_EveryOffsetAttemptedOnce ==
    /\ IsPrefix(fetched, forecast_hours)
    /\ \A i \in 1..Len(extractCalled) : extractCalled[i] \in fetchOK
    /\ checked # None => fetched = forecast_hours
    /\ Finished /\ cycle # None =>
          /\ fetched = forecast_hours
          /\ checked # None

\* C10: with two extract_point calls in flight, each call decodes the bytes
\* it was given and neither fails or loses its file because of the other.
C10_CallsDoNotInterfere ==
    \A p \in Callers :
        /\ epc[p] \in {"finally", "remove", "returned"} =>
              decoded[p] = Some(ebytes[p])
        /\ eexc[p] # "FileNotFoundError"
        /\ epc[p] = "returned" /\ ebytes[p].valid =>
              eresult[p] \in {Some(r) : r \in PointRecords(ebytes[p])}
        /\ epc[p] = "returned" /\ ~ebytes[p].valid => eresult[p] = None

====
